---- MODULE Spec2Model ----
(***************************************************************************)
(* NominatimService (src/src/nominatim.service.ts, the cached version of   *)
(* lines 213-459) as a state machine.  Every public call is an async unit  *)
(* of work that suspends at cacheManager.get, httpClient.get and           *)
(* cacheManager.set; the steps of several calls interleave.  The cache     *)
(* store and the upstream HTTP service are the environment: the store may  *)
(* expire entries or fail, the upstream may answer any body or fail.       *)
(***************************************************************************)
EXTENDS Integers, Sequences, FiniteSets, TLC

VARIABLES
    calls,      \* the calls made so far, in start order; one record per call
    cache,      \* the cache store: key -> entry, for the keys that are present
    data,       \* the caller-owned Place object handed to formatLocation
    formatted,  \* what the last formatLocation call returned (NoResult before)
    given,      \* the options object the application passed to forRoot
    options,    \* NOMINATIM_OPTIONS: the options the service was built with
    cacheOptions,   \* what forRoot registered the cache module with
    httpClient  \* the axios instance the constructor created

\* What forRoot and the constructor set up once; no call changes it.
config == <<given, options, cacheOptions, httpClient>>

vars == <<calls, cache, data, formatted, config>>

(***************************************************************************)
(* Bounds of the model.                                                    *)
(***************************************************************************)
MaxCalls == 2       \* calls of search/reverse/lookup/healthCheck per run
MaxIds == 2         \* longest id list passed to lookup
MaxFields == 2      \* most components in an address block

(***************************************************************************)
(* JavaScript values.  null and undefined are tokens that no input string  *)
(* of the model equals.                                                    *)
(***************************************************************************)
Null == "null"
Undefined == "undefined"
\* formatLocation has not been called yet.
NoResult == [none |-> TRUE]

\* The empty response body (axios gives "" for it), the one falsy body here.
EmptyBody == ""
\* A Place object, and the object the upstream answers a /reverse request with
\* when it finds no place there (HTTP 200, {"error": "Unable to geocode"}).
PlaceBody == "{P1}"
UnableToGeocode == "{error}"
Bodies == {EmptyBody, "[]", "[P1]", PlaceBody, UnableToGeocode}

\* if (cached): JavaScript truthiness of a cached value
Truthy(v) == v \notin {Undefined, Null, EmptyBody}

\* a || b: a falsy left side, the empty string included, gives way.
CoalesceFalsy(a, b) == IF a \in {Null, Undefined, ""} THEN b ELSE a

\* a ?? b
Coalesce(a, b) == IF a \in {Null, Undefined} THEN b ELSE a

(***************************************************************************)
(* Inputs of the model.                                                    *)
(***************************************************************************)
\* Query strings: surrounding blanks, capitals and a ':' are kept as given.
Queries == {" Paris ", "a:b"}

\* A JavaScript number with a finite decimal expansion: sign, integer part
\* and the fraction's digits (no trailing zero).  neg with 0 is -0.
Num(neg, int, frac) == [neg |-> neg, int |-> int, frac |-> frac]
PlusZero == Num(FALSE, 0, <<>>)
MinusZero == Num(TRUE, 0, <<>>)

\* lat 48.8566, lon 2.3522 is the pair of src/src/test.ts:56-59.
Coords ==
    { [lat |-> Num(FALSE, 48, <<8, 5, 6, 6>>), lon |-> Num(FALSE, 2, <<3, 5, 2, 2>>)],
      [lat |-> Num(FALSE, 48, <<8, 5, 6, 6>>), lon |-> Num(TRUE, 2, <<3, 5, 2, 2>>)],
      [lat |-> MinusZero, lon |-> PlusZero],
      [lat |-> PlusZero, lon |-> PlusZero] }

OsmIds == {"R1", "W2"}
IdLists == UNION {[1..n -> OsmIds] : n \in 0..MaxIds}

\* How the outbound HTTP call can fail.
FailureKinds == {"network", "status", "timeout", "other"}

(***************************************************************************)
(* String building.                                                        *)
(***************************************************************************)
Digit(d) == <<"0", "1", "2", "3", "4", "5", "6", "7", "8", "9">>[d + 1]

RECURSIVE NatToString(_)
NatToString(n) ==
    IF n < 10 THEN Digit(n) ELSE NatToString(n \div 10) \o Digit(n % 10)

RECURSIVE DigitsToString(_)
DigitsToString(ds) ==
    IF ds = <<>> THEN "" ELSE Digit(Head(ds)) \o DigitsToString(Tail(ds))

\* Number::toString as a template literal applies it: -0 prints as "0", a
\* negative number with a leading "-", an integer without a decimal point.
NumberToString(x) ==
    IF x.int = 0 /\ x.frac = <<>> THEN "0"
    ELSE (IF x.neg THEN "-" ELSE "")
         \o NatToString(x.int)
         \o (IF x.frac = <<>> THEN "" ELSE "." \o DigitsToString(x.frac))

\* Array.prototype.join
RECURSIVE Join(_, _)
Join(list, sep) ==
    IF list = <<>> THEN ""
    ELSE IF Len(list) = 1 THEN list[1]
    ELSE list[1] \o sep \o Join(Tail(list), sep)

(***************************************************************************)
(* CacheKeys (src/src/helpers/cash-keys.ts).                               *)
(***************************************************************************)
\* A key that takes in the configured language.
SEARCH_Localised(query) == "search:" \o options.language \o ":" \o query

\* A key built from the query trimmed and lower-cased.
SEARCH_Normalised(query) ==
    "search:" \o (IF query = " Paris " THEN "paris" ELSE query)

SEARCH(query) == "search:" \o query

\* A key with longitude and latitude in the wrong order.
REVERSE_Swapped(lat, lon) ==
    "reverse:" \o NumberToString(lon) \o ":" \o NumberToString(lat)

REVERSE(lat, lon) ==
    "reverse:" \o NumberToString(lat) \o ":" \o NumberToString(lon)

\* A key built from the first id alone.
LOOKUP_First(osmIds) == "lookup:" \o osmIds[1]

\* A key with the ids joined by ", ".
LOOKUP_Spaced(osmIds) == "lookup:" \o Join(osmIds, ", ")

LOOKUP(osmIds) == "lookup:" \o Join(osmIds, ",")

(***************************************************************************)
(* Errors a call can end with.                                             *)
(***************************************************************************)
RequestFailed == "Nominatim request failed"
LookupNeedsId == "lookup requires at least one OSM ID"
\* Whatever the cache store throws; the service does not catch it.
StoreError == "cache store error"

Pending == [kind |-> "pending", val |-> ""]
Ok(v) == [kind |-> "ok", val |-> v]
Err(m) == [kind |-> "error", val |-> m]

\* A catch block that rethrows what the transport threw.
RequestErrorRethrown(kind) == Err(kind)

\* request()'s catch block: what the caller gets for a transport failure
RequestError(kind) == Err(RequestFailed)

(***************************************************************************)
(* Configuration: NominatimConfig, CashConfig, NominatimModule.forRoot and *)
(* the service's constructor.  An options object is the record of the      *)
(* properties it has; a property left out reads as undefined.              *)
(***************************************************************************)
NominatimConfig ==
    [baseUrl |-> "https://nominatim.openstreetmap.org", format |-> "json",
     language |-> "en", addressdetails |-> TRUE, timeout |-> 5000,
     userAgent |-> "nestjs-nominatim/1.0", extratags |-> FALSE,
     namedetails |-> FALSE]

CashConfig ==
    [ttl |-> 86400000, namespace |-> "nominatim", refreshThreshold |-> 60000,
     nonBlocking |-> FALSE, stores |-> <<>>]

NoOptions == [f \in {} |-> Undefined]

\* The options of src/src/test.ts: addressdetails is left out.
TestOptions ==
    [baseUrl |-> "https://nominatim.openstreetmap.org", extratags |-> FALSE,
     namedetails |-> FALSE, language |-> "en", userAgent |-> "MyApp/1.0",
     timeout |-> 5000]

\* What an application can do with a flag: leave it out, or set it to null,
\* true or false.
FlagChoices == {"left out", "null", "true", "false"}

FlagOptions(name, choice) ==
    CASE choice = "left out" -> NoOptions
      [] choice = "null" -> name :> Null
      [] choice = "true" -> name :> TRUE
      [] choice = "false" -> name :> FALSE

LanguageOptions == {NoOptions, "language" :> Null, "language" :> "fr"}

\* The remaining options: all left out, all given (falsy where they can be,
\* the cache options without a ttl), or the cache option given as null.
OtherChoices == {"left out", "given", "null cache"}

OtherOptions(choice) ==
    CASE choice = "left out" -> NoOptions
      [] choice = "given" ->
             [baseUrl |-> "http://localhost:8080", timeout |-> 0,
              userAgent |-> "", cache |-> [namespace |-> "app"]]
      [] choice = "null cache" -> "cache" :> Null

\* v is null or undefined, for a v of any type.
Nullish(v) == ToString(v) \in {ToString(Null), ToString(Undefined)}

\* v is falsy, for a v of any type.
Falsy(v) == Nullish(v) \/ ToString(v) \in {ToString(FALSE), ToString(0), ToString("")}

\* opts.name, undefined when the property is left out.
Given(opts, name) == IF name \in DOMAIN opts THEN opts[name] ELSE Undefined

\* options.name || NominatimConfig.name: a falsy value gives way too.
OptionOr(opts, name) ==
    IF Falsy(Given(opts, name)) THEN NominatimConfig[name] ELSE opts[name]

\* options.name ?? NominatimConfig.name
Option(opts, name) ==
    IF Nullish(Given(opts, name)) THEN NominatimConfig[name] ELSE opts[name]

\* forRoot laying the given cache options over the defaults.
forRootMerging(opts) ==
    [options |-> [baseUrl |-> Option(opts, "baseUrl"),
                  language |-> Option(opts, "language"),
                  addressdetails |-> Option(opts, "addressdetails"),
                  timeout |-> Option(opts, "timeout"),
                  userAgent |-> Option(opts, "userAgent"),
                  extratags |-> Option(opts, "extratags"),
                  namedetails |-> Option(opts, "namedetails")],
     cache |-> IF Nullish(Given(opts, "cache")) THEN CashConfig
               ELSE opts.cache @@ CashConfig]

\* forRoot(options): the NOMINATIM_OPTIONS value and the cache registration
forRoot(opts) ==
    [options |-> [baseUrl |-> Option(opts, "baseUrl"),
                  language |-> Option(opts, "language"),
                  addressdetails |-> Option(opts, "addressdetails"),
                  timeout |-> Option(opts, "timeout"),
                  userAgent |-> Option(opts, "userAgent"),
                  extratags |-> Option(opts, "extratags"),
                  namedetails |-> Option(opts, "namedetails")],
     cache |-> IF Nullish(Given(opts, "cache")) THEN CashConfig ELSE opts.cache]

\* name=1 when the flag is set, nothing otherwise
FlagParam(opts, name) == IF opts[name] = TRUE THEN name :> 1 ELSE NoOptions

\* The constructor of the version without a cache: the language goes out as
\* `language`.
ConstructorParamsFirstVersion(opts) ==
    [format |-> NominatimConfig.format, language |-> opts.language]
    @@ FlagParam(opts, "addressdetails") @@ FlagParam(opts, "extratags")
    @@ FlagParam(opts, "namedetails")

\* The constructor's params object: the query parameters of every request
ConstructorParams(opts) ==
    ("format" :> NominatimConfig.format) @@ ("accept-language" :> opts.language)
    @@ FlagParam(opts, "addressdetails") @@ FlagParam(opts, "extratags")
    @@ FlagParam(opts, "namedetails")

\* axios.create({baseURL, params, headers, timeout})
Constructor(opts) ==
    [baseURL |-> opts.baseUrl, params |-> ConstructorParams(opts),
     headers |-> ("User-Agent" :> opts.userAgent), timeout |-> opts.timeout]

\* The application passes opts to forRoot; Nest builds the service from it.
Configured(opts) ==
    /\ given = opts
    /\ options = forRoot(opts).options
    /\ cacheOptions = forRoot(opts).cache
    /\ httpClient = Constructor(forRoot(opts).options)

\* The query parameters axios sends for httpClient.get(path, {params}): the
\* instance's params, with the request's own params over them.
QueryParams(request) ==
    IF "params" \in DOMAIN request
    THEN request.params @@ httpClient.params
    ELSE httpClient.params

(***************************************************************************)
(* The service's calls.                                                    *)
(***************************************************************************)
CallIds == 1..Len(calls)

\* The calls that have ended, with a value or an error, when a new call starts.
Ended == {c \in CallIds : calls[c].pc = "done"}

\* The calls that have returned a value when a new call starts.
Returned == {c \in CallIds : calls[c].result.kind = "ok"}

EmptyCache == [k \in {} |-> Undefined]

\* A store that answers with the entry of some other key when it has none
\* under the key asked for.
CacheValueAnyKey(key) ==
    IF key \in DOMAIN cache THEN cache[key].value
    ELSE IF DOMAIN cache # {} THEN cache[CHOOSE k \in DOMAIN cache : TRUE].value
    ELSE Undefined

\* cacheManager.get(key) as the store answers it: the value, or undefined
CacheValue(key) == IF key \in DOMAIN cache THEN cache[key].value ELSE Undefined

\* Who wrote the entry under key (0: there is none).
CacheWriter(key) == IF key \in DOMAIN cache THEN cache[key].writer ELSE 0

\* cachedRequest up to its first await: cacheManager.get(key) is called.
\* requestFn is the closure's request, ttl the optional third argument
\* (undefined: the store's default), args the caller's arguments.
cachedRequest(op, args, key, requestFn, ttl) ==
    /\ Len(calls) < MaxCalls
    /\ calls' = Append(calls,
            [op |-> op, args |-> args, key |-> key, requestFn |-> requestFn,
             ttl |-> ttl, pc |-> "get", gets |-> 1, sets |-> 0, http |-> <<>>,
             fetched |-> Undefined, result |-> Pending, cause |-> "none",
             prior |-> Returned, readFrom |-> 0,
             cached |-> Undefined, got |-> FALSE, storeFault |-> "none",
             setAt |-> 0, ended |-> Ended])
    /\ UNCHANGED <<cache, data, formatted, config>>

\* search(query)
Search(query) ==
    cachedRequest("search", [query |-> query], SEARCH(query),
                  [params |-> [q |-> query], path |-> "/search"], Undefined)

\* reverse(coordinates)
Reverse(coordinates) ==
    cachedRequest("reverse", [coordinates |-> coordinates],
                  REVERSE(coordinates.lat, coordinates.lon),
                  [params |-> [lat |-> coordinates.lat, lon |-> coordinates.lon],
                   path |-> "/reverse"],
                  Undefined)

\* lookup without the length check.
LookupUnchecked(osmIds) ==
    cachedRequest("lookup", [osmIds |-> osmIds], LOOKUP(osmIds),
                  [params |-> [osm_ids |-> Join(osmIds, ",")],
                   path |-> "/lookup"], Undefined)

\* lookup(osmIds): an empty list throws before anything else happens
Lookup(osmIds) ==
    IF Len(osmIds) = 0
    THEN /\ Len(calls) < MaxCalls
         /\ calls' = Append(calls,
                 [op |-> "lookup", args |-> [osmIds |-> osmIds], key |-> "",
                  requestFn |-> [path |-> ""], ttl |-> Undefined,
                  pc |-> "done", gets |-> 0, sets |-> 0, http |-> <<>>,
                  fetched |-> Undefined, result |-> Err(LookupNeedsId),
                  cause |-> "none", prior |-> Returned, readFrom |-> 0,
                  cached |-> Undefined, got |-> FALSE, storeFault |-> "none",
                  setAt |-> 0, ended |-> Ended])
         /\ UNCHANGED <<cache, data, formatted, config>>
    ELSE cachedRequest("lookup", [osmIds |-> osmIds], LOOKUP(osmIds),
                       [params |-> [osm_ids |-> Join(osmIds, ",")],
                        path |-> "/lookup"], Undefined)

\* healthCheck routed through cachedRequest like the other operations.
HealthCheckCached ==
    cachedRequest("healthCheck", [none |-> TRUE], "status", [path |-> "/status"],
                  Undefined)

\* healthCheck(): request("/status") at once, no cache involved
HealthCheck ==
    /\ Len(calls) < MaxCalls
    /\ calls' = Append(calls,
            [op |-> "healthCheck", args |-> [none |-> TRUE], key |-> "",
             requestFn |-> [path |-> "/status"], ttl |-> Undefined,
             pc |-> "http", gets |-> 0, sets |-> 0,
             http |-> <<[path |-> "/status"]>>,
             fetched |-> Undefined, result |-> Pending, cause |-> "none",
             prior |-> Returned, readFrom |-> 0,
             cached |-> Undefined, got |-> FALSE, storeFault |-> "none",
             setAt |-> 0, ended |-> Ended])
    /\ UNCHANGED <<cache, data, formatted, config>>

\* The calls that share c's key and have a GET or a set under way.
InFlight(c) ==
    {d \in CallIds \ {c} : calls[d].key = calls[c].key /\ calls[d].pc \in {"http", "set"}}

\* A single-flight wrapper: a miss that finds the key being fetched waits
\* for that fetch and issues no request of its own.
CacheGetResolveSingleFlight(c) ==
    /\ calls[c].pc = "get"
    /\ LET call == calls[c]
           cached == CacheValue(call.key)
       IN calls' = [calls EXCEPT ![c] =
              IF Truthy(cached)
              THEN [call EXCEPT !.pc = "done", !.result = Ok(cached),
                                !.cached = cached, !.got = TRUE,
                                !.readFrom = CacheWriter(call.key)]
              ELSE [call EXCEPT !.pc = "http",
                                !.http = IF InFlight(c) = {}
                                         THEN Append(@, call.requestFn) ELSE @,
                                !.cached = cached, !.got = TRUE,
                                !.readFrom = CacheWriter(call.key)]]
    /\ UNCHANGED <<cache, data, formatted, config>>

\* A wrapper that returns the cached value and refreshes it in the background.
CacheGetResolveRefreshing(c) ==
    /\ calls[c].pc = "get"
    /\ LET call == calls[c]
           cached == CacheValue(call.key)
       IN calls' = [calls EXCEPT ![c] =
              IF Truthy(cached)
              THEN [call EXCEPT !.pc = "done", !.result = Ok(cached),
                                !.http = Append(@, call.requestFn),
                                !.cached = cached, !.got = TRUE,
                                !.readFrom = CacheWriter(call.key)]
              ELSE [call EXCEPT !.pc = "http",
                                !.http = Append(@, call.requestFn),
                                !.cached = cached, !.got = TRUE,
                                !.readFrom = CacheWriter(call.key)]]
    /\ UNCHANGED <<cache, data, formatted, config>>

\* cachedRequest after `await this.cacheManager.get(key)`: a truthy value is
\* returned, anything else calls requestFn(), which issues the GET.
CacheGetResolve(c) ==
    /\ calls[c].pc = "get"
    /\ LET call == calls[c]
           cached == CacheValue(call.key)
       IN calls' = [calls EXCEPT ![c] =
              IF Truthy(cached)
              THEN [call EXCEPT !.pc = "done", !.result = Ok(cached),
                                !.cached = cached, !.got = TRUE,
                                !.readFrom = CacheWriter(call.key)]
              ELSE [call EXCEPT !.pc = "http",
                                !.http = Append(@, call.requestFn),
                                !.cached = cached, !.got = TRUE,
                                !.readFrom = CacheWriter(call.key)]]
    /\ UNCHANGED <<cache, data, formatted, config>>

\* A wrapper that takes a failing cache read for a miss.
CacheGetRejectAsMiss(c) ==
    /\ calls[c].pc = "get"
    /\ calls' = [calls EXCEPT ![c].pc = "http",
                              ![c].http = Append(@, calls[c].requestFn),
                              ![c].storeFault = "get"]
    /\ UNCHANGED <<cache, data, formatted, config>>

\* cacheManager.get rejects: nothing catches it
CacheGetReject(c) ==
    /\ calls[c].pc = "get"
    /\ calls' = [calls EXCEPT ![c].pc = "done", ![c].result = Err(StoreError),
                              ![c].storeFault = "get"]
    /\ UNCHANGED <<cache, data, formatted, config>>

\* request(): the GET answers with a body.  healthCheck returns it;
\* cachedRequest goes on to cacheManager.set(key, result, ttl).
HttpResolve(c, body) ==
    /\ calls[c].pc = "http"
    /\ calls' = [calls EXCEPT ![c] =
           IF @.op = "healthCheck"
           THEN [@ EXCEPT !.pc = "done", !.result = Ok(body)]
           ELSE [@ EXCEPT !.pc = "set", !.fetched = body, !.sets = @ + 1]]
    /\ UNCHANGED <<cache, data, formatted, config>>

\* A wrapper that drops the key's entry when the fetch fails.
HttpRejectInvalidating(c, kind) ==
    /\ calls[c].pc = "http"
    /\ calls' = [calls EXCEPT ![c].pc = "done",
                              ![c].result = RequestError(kind),
                              ![c].cause = kind]
    /\ cache' = [k \in DOMAIN cache \ {calls[c].key} |-> cache[k]]
    /\ UNCHANGED <<data, formatted, config>>

\* A wrapper that remembers a failed fetch under the key.
HttpRejectCaching(c, kind) ==
    /\ calls[c].pc = "http"
    /\ calls' = [calls EXCEPT ![c].pc = "done",
                              ![c].result = RequestError(kind),
                              ![c].cause = kind]
    /\ cache' = [k \in DOMAIN cache \cup {calls[c].key} |->
                    IF k = calls[c].key
                    THEN [value |-> Null, ttl |-> calls[c].ttl, writer |-> c]
                    ELSE cache[k]]
    /\ UNCHANGED <<data, formatted, config>>

\* A request() that sends the GET once more after its first failure.
HttpRejectRetrying(c, kind) ==
    /\ calls[c].pc = "http"
    /\ calls' = [calls EXCEPT ![c] =
           IF Len(@.http) = 1
           THEN [@ EXCEPT !.http = Append(@, calls[c].requestFn)]
           ELSE [@ EXCEPT !.pc = "done", !.result = RequestError(kind),
                          !.cause = kind]]
    /\ UNCHANGED <<cache, data, formatted, config>>

\* request(): the GET fails; the catch block logs and throws the one error
HttpReject(c, kind) ==
    /\ calls[c].pc = "http"
    /\ calls' = [calls EXCEPT ![c].pc = "done",
                              ![c].result = RequestError(kind),
                              ![c].cause = kind]
    /\ UNCHANGED <<cache, data, formatted, config>>

\* How many cacheManager.set calls have completed so far.
SetsDone == Cardinality({d \in CallIds : calls[d].setAt > 0})

\* A wrapper that returns the fetched result without storing it.
CacheSetResolveNoStore(c) ==
    /\ calls[c].pc = "set"
    /\ calls' = [calls EXCEPT ![c].pc = "done",
                              ![c].result = Ok(calls[c].fetched),
                              ![c].setAt = SetsDone + 1]
    /\ UNCHANGED <<cache, data, formatted, config>>

\* A store whose set keeps the entry that is already there (first write wins).
CacheSetResolveKeepFirst(c) ==
    /\ calls[c].pc = "set"
    /\ cache' = [k \in DOMAIN cache \cup {calls[c].key} |->
                    IF k = calls[c].key /\ k \notin DOMAIN cache
                    THEN [value |-> calls[c].fetched, ttl |-> calls[c].ttl,
                          writer |-> c]
                    ELSE cache[k]]
    /\ calls' = [calls EXCEPT ![c].pc = "done",
                              ![c].result = Ok(calls[c].fetched),
                              ![c].setAt = SetsDone + 1]
    /\ UNCHANGED <<data, formatted, config>>

\* cachedRequest after `await this.cacheManager.set(...)`: the store holds
\* the fetched result under key and the call returns it.
CacheSetResolve(c) ==
    /\ calls[c].pc = "set"
    /\ cache' = [k \in DOMAIN cache \cup {calls[c].key} |->
                    IF k = calls[c].key
                    THEN [value |-> calls[c].fetched, ttl |-> calls[c].ttl,
                          writer |-> c]
                    ELSE cache[k]]
    /\ calls' = [calls EXCEPT ![c].pc = "done",
                              ![c].result = Ok(calls[c].fetched),
                              ![c].setAt = SetsDone + 1]
    /\ UNCHANGED <<data, formatted, config>>

\* cacheManager.set rejects: nothing catches it
CacheSetReject(c) ==
    /\ calls[c].pc = "set"
    /\ calls' = [calls EXCEPT ![c].pc = "done", ![c].result = Err(StoreError),
                              ![c].storeFault = "set"]
    /\ UNCHANGED <<cache, data, formatted, config>>

\* The store drops an entry: its TTL ran out, or it was evicted.
Expire(key) ==
    /\ key \in DOMAIN cache
    /\ cache' = [k \in DOMAIN cache \ {key} |-> cache[k]]
    /\ UNCHANGED <<calls, data, formatted, config>>

(***************************************************************************)
(* formatLocation.  A Place is the record of the properties it has: a     *)
(* missing property reads as undefined.  Only address and display_name    *)
(* are read.                                                               *)
(***************************************************************************)
\* The address components formatLocation reads, and one it does not.
AddressFields ==
    <<"country", "country_code", "postcode", "state", "region",
      "ISO3166-2-lvl2", "ISO3166-2-lvl4", "ISO3166-2-lvl6", "ISO3166-2-lvl8",
      "municipality", "city", "town", "village", "county",
      "city_district", "district", "suburb", "neighbourhood", "hamlet",
      "road", "street", "highway", "residential",
      "amenity", "building", "public_building", "office", "shop", "tourism",
      "leisure", "house_number">>

AddressValues == {Null, "", "Bretagne", "Rennes"}

\* The address block with components AddressFields[pick[i]] = values[i].
Address(pick, values) ==
    [f \in {AddressFields[pick[i]] : i \in DOMAIN pick} |->
        values[CHOOSE i \in DOMAIN pick : AddressFields[pick[i]] = f]]

DisplayName == "Rennes, Bretagne, France"

\* The Places handed to formatLocation while the service is in use.
SamplePlaces ==
    {[display_name |-> DisplayName],
     [address |-> [region |-> "Bretagne", city |-> "Rennes"],
      display_name |-> DisplayName]}

\* obj[prop] in JavaScript
Prop(obj, prop) == IF prop \in DOMAIN obj THEN obj[prop] ELSE Undefined

\* A destructuring without defaults.
DefaultIgnored(v, value) == v

\* a destructuring default: `= value` applies to undefined only
Default(v, value) == IF v = Undefined THEN value ELSE v

EmptyAddress == [f \in {} |-> Undefined]

\* region without the fallback to address.region.
RegionStateOnly(address) == Coalesce(Prop(address, "state"), Null)

\* region: address.state ?? address.region ?? null
Region(address) ==
    Coalesce(Prop(address, "state"), Coalesce(Prop(address, "region"), Null))

RegionCode(address) ==
    Coalesce(Prop(address, "ISO3166-2-lvl2"),
    Coalesce(Prop(address, "ISO3166-2-lvl4"),
    Coalesce(Prop(address, "ISO3166-2-lvl6"),
    Coalesce(Prop(address, "ISO3166-2-lvl8"), Null))))

\* commune with city tried before municipality.
CommuneCityFirst(address) ==
    Coalesce(Prop(address, "city"),
    Coalesce(Prop(address, "municipality"),
    Coalesce(Prop(address, "town"),
    Coalesce(Prop(address, "village"),
    Coalesce(Prop(address, "county"), Null)))))

Commune(address) ==
    Coalesce(Prop(address, "municipality"),
    Coalesce(Prop(address, "city"),
    Coalesce(Prop(address, "town"),
    Coalesce(Prop(address, "village"),
    Coalesce(Prop(address, "county"), Null)))))

\* district with suburb tried first.
DistrictSuburbFirst(address) ==
    Coalesce(Prop(address, "suburb"),
    Coalesce(Prop(address, "city_district"),
    Coalesce(Prop(address, "district"),
    Coalesce(Prop(address, "neighbourhood"),
    Coalesce(Prop(address, "hamlet"), Null)))))

District(address) ==
    Coalesce(Prop(address, "city_district"),
    Coalesce(Prop(address, "district"),
    Coalesce(Prop(address, "suburb"),
    Coalesce(Prop(address, "neighbourhood"),
    Coalesce(Prop(address, "hamlet"), Null)))))

Street(address) ==
    Coalesce(Prop(address, "road"),
    Coalesce(Prop(address, "street"),
    Coalesce(Prop(address, "highway"),
    Coalesce(Prop(address, "residential"), Null))))

PlaceType(address) ==
    Coalesce(Prop(address, "amenity"),
    Coalesce(Prop(address, "building"),
    Coalesce(Prop(address, "public_building"),
    Coalesce(Prop(address, "office"),
    Coalesce(Prop(address, "shop"),
    Coalesce(Prop(address, "tourism"),
    Coalesce(Prop(address, "leisure"), Null)))))))

\* const { address = {}, display_name = "" } = data
AddressOf(place) ==
    IF "address" \in DOMAIN place THEN place.address ELSE EmptyAddress

formatLocation(place) ==
    LET address == AddressOf(place)
        display_name == Default(Prop(place, "display_name"), "")
    IN [country |-> Coalesce(Prop(address, "country"), Null),
        countryCode |-> Coalesce(Prop(address, "country_code"), Null),
        postcode |-> Coalesce(Prop(address, "postcode"), Null),
        region |-> Region(address),
        regionCode |-> RegionCode(address),
        commune |-> Commune(address),
        district |-> District(address),
        street |-> Street(address),
        placeType |-> PlaceType(address),
        fullAddress |-> Coalesce(display_name, Null)]

\* formatLocation writing its defaults back into the Place.
FormatLocationInPlace ==
    /\ formatted' = formatLocation(data)
    /\ data' = [address |-> AddressOf(data),
                display_name |-> Default(Prop(data, "display_name"), "")]
    /\ UNCHANGED <<calls, cache, config>>

\* The caller formats its Place: synchronous, one step.
FormatLocation ==
    /\ formatted' = formatLocation(data)
    /\ UNCHANGED <<calls, cache, data, config>>

(***************************************************************************)
(* Specifications.                                                         *)
(***************************************************************************)
InitService ==
    /\ calls = <<>>
    /\ cache = EmptyCache
    /\ formatted = NoResult

\* The service in use, set up as src/src/test.ts does: calls interleave, the
\* caller holds one Place.
Init == InitService /\ Configured(TestOptions) /\ data \in SamplePlaces

Next ==
    \/ \E query \in Queries : Search(query)
    \/ \E coordinates \in Coords : Reverse(coordinates)
    \/ \E osmIds \in IdLists : Lookup(osmIds)
    \/ HealthCheck
    \/ \E c \in CallIds : CacheGetResolve(c)
    \/ \E c \in CallIds : CacheGetReject(c)
    \/ \E c \in CallIds, body \in Bodies : HttpResolve(c, body)
    \/ \E c \in CallIds, kind \in FailureKinds : HttpReject(c, kind)
    \/ \E c \in CallIds : CacheSetResolve(c)
    \/ \E c \in CallIds : CacheSetReject(c)
    \/ \E key \in DOMAIN cache : Expire(key)
    \/ FormatLocation

Spec == Init /\ [][Next]_vars

\* formatLocation alone, over the Places of the bounds: no address block
\* with any display_name, or an address block of at most MaxFields
\* components (picked in the order of AddressFields).
InitFormat ==
    /\ InitService
    /\ Configured(TestOptions)
    /\ \/ data \in {[display_name |-> DisplayName], [display_name |-> Null],
                    [place_id |-> 1]}
       \/ \E n \in 0..MaxFields :
            \E pick \in [1..n -> 1..Len(AddressFields)] :
                /\ \A i \in 1..(n - 1) : pick[i] < pick[i + 1]
                /\ \E values \in [1..n -> AddressValues] :
                       data = [address |-> Address(pick, values),
                               display_name |-> DisplayName]

NextFormat == FormatLocation

SpecFormat == InitFormat /\ [][NextFormat]_vars

\* The service under every configuration of the bounds, up to the point
\* where each call has sent its request.
InitConfig ==
    /\ InitService
    /\ data = [display_name |-> DisplayName]
    /\ \E language \in LanguageOptions, other \in OtherChoices,
          addressdetails, extratags, namedetails \in FlagChoices :
            Configured(language
                       @@ FlagOptions("addressdetails", addressdetails)
                       @@ FlagOptions("extratags", extratags)
                       @@ FlagOptions("namedetails", namedetails)
                       @@ OtherOptions(other))

NextConfig ==
    \/ \E query \in Queries : Search(query)
    \/ \E coordinates \in Coords : Reverse(coordinates)
    \/ \E osmIds \in IdLists : Lookup(osmIds)
    \/ HealthCheck
    \/ \E c \in CallIds : CacheGetResolve(c)

SpecConfig == InitConfig /\ [][NextConfig]_vars

(***************************************************************************)
(* Properties.                                                             *)
(***************************************************************************)
\* The cache entries a call has written.
WrittenBy(c) == {k \in DOMAIN cache : cache[k].writer = c}

\* C1: a search that starts after an earlier search of the same query has
\* returned, and whose cache read finds the entry that earlier search wrote
\* still in the store, issues no upstream request and returns the value the
\* earlier search returned.
C1_SecondSearchServedFromCache ==
    \A c, d \in CallIds :
        ( /\ calls[c].op = "search" /\ calls[d].op = "search"
          /\ calls[c].args.query = calls[d].args.query
          /\ c \in calls[d].prior
          /\ calls[d].readFrom = c )
        => /\ calls[d].http = <<>>
           /\ calls[d].result = calls[c].result

\* C2: lookup with an empty id list ends at once with the error 'lookup
\* requires at least one OSM ID': it has made no cache get, no cache set and
\* no HTTP request, and no cache entry comes from it.
C2_EmptyLookupFailsFirst ==
    \A c \in CallIds :
        (calls[c].op = "lookup" /\ calls[c].args.osmIds = <<>>)
        => /\ calls[c].pc = "done"
           /\ calls[c].result = Err("lookup requires at least one OSM ID")
           /\ calls[c].gets = 0 /\ calls[c].sets = 0
           /\ calls[c].http = <<>>
           /\ calls[c].readFrom = 0
           /\ WrittenBy(c) = {}

\* C2 witness: an empty lookup has failed while the cache holds an entry.
C2_Witness ==
    \E c \in CallIds :
        /\ calls[c].op = "lookup" /\ calls[c].args.osmIds = <<>>
        /\ calls[c].result = Err("lookup requires at least one OSM ID")
        /\ DOMAIN cache # {}

\* C3: whatever came before, a healthCheck call makes no cache get and no
\* cache set, issues exactly one GET, to /status, and no cache entry is
\* read or written by it.
C3_HealthCheckBypassesCache ==
    \A c \in CallIds :
        calls[c].op = "healthCheck"
        => /\ calls[c].gets = 0 /\ calls[c].sets = 0
           /\ calls[c].http = <<[path |-> "/status"]>>
           /\ calls[c].pc \in {"http", "done"}
           /\ calls[c].readFrom = 0
           /\ WrittenBy(c) = {}

\* C3 witness: a healthCheck made after a cached call filled the cache has
\* returned.
C3_Witness ==
    \E c \in CallIds :
        /\ calls[c].op = "healthCheck" /\ calls[c].result.kind = "ok"
        /\ calls[c].prior # {}
        /\ DOMAIN cache # {}

\* C4: a call whose GET failed, in whichever way, ends with the error
\* 'Nominatim request failed' and never with the transport's own failure.
C4_OneGenericError ==
    \A c \in CallIds :
        calls[c].cause # "none"
        => /\ calls[c].pc = "done"
           /\ calls[c].result = Err("Nominatim request failed")
           /\ calls[c].result.val # calls[c].cause

\* C4 witness: a healthCheck and a search on a cache miss failed in two
\* different ways.
C4_Witness ==
    \E c, d \in CallIds :
        /\ calls[c].op = "healthCheck" /\ calls[c].cause = "timeout"
        /\ calls[d].op = "search" /\ calls[d].cause = "status"
        /\ calls[d].gets = 1

\* C5: search(s) reads and writes the cache under 'search:' followed by
\* exactly s, and the GET it issues on a miss is to /search with q = s.
C5_SearchKeyAndQuery ==
    \A c \in CallIds :
        calls[c].op = "search"
        => /\ calls[c].key = "search:" \o calls[c].args.query
           /\ WrittenBy(c) \subseteq {"search:" \o calls[c].args.query}
           /\ calls[c].http \in
                 {<<>>, <<[path |-> "/search",
                           params |-> [q |-> calls[c].args.query]]>>}
           /\ (calls[c].pc \in {"http", "set"} => calls[c].http # <<>>)

\* C5 witness: search(' Paris ') missed, fetched and cached its result.
C5_Witness ==
    \E c \in CallIds :
        /\ calls[c].op = "search" /\ calls[c].args.query = " Paris "
        /\ calls[c].http = <<[path |-> "/search", params |-> [q |-> " Paris "]]>>
        /\ WrittenBy(c) = {"search: Paris "}

\* Two JavaScript numbers are the same value (-0 and 0 are).
SameNumber(x, y) == x = y \/ (x.int = 0 /\ x.frac = <<>> /\ y.int = 0 /\ y.frac = <<>>)

\* C6: reverse reads and writes the cache under 'reverse:<lat>:<lon>' with
\* the numbers printed as they are, the GET it issues on a miss is to
\* /reverse with those lat and lon, and calls for different pairs use
\* different keys.
C6_ReverseKeyAndCoordinates ==
    \A c \in CallIds :
        calls[c].op = "reverse"
        => LET co == calls[c].args.coordinates
               key == "reverse:" \o NumberToString(co.lat) \o ":"
                          \o NumberToString(co.lon)
           IN /\ calls[c].key = key
              /\ WrittenBy(c) \subseteq {key}
              /\ calls[c].http \in
                    {<<>>, <<[path |-> "/reverse",
                              params |-> [lat |-> co.lat, lon |-> co.lon]]>>}
              /\ (calls[c].pc \in {"http", "set"} => calls[c].http # <<>>)
              /\ \A d \in CallIds :
                    calls[d].op = "reverse"
                    => LET do == calls[d].args.coordinates
                       IN (~SameNumber(co.lat, do.lat) \/ ~SameNumber(co.lon, do.lon))
                          => calls[d].key # calls[c].key

\* C6 witness: reverse of (48.8566, 2.3522) and of (48.8566, -2.3522) both
\* missed and cached their results under two keys.
C6_Witness ==
    \E c, d \in CallIds :
        /\ calls[c].op = "reverse" /\ calls[d].op = "reverse"
        /\ WrittenBy(c) = {"reverse:48.8566:2.3522"}
        /\ WrittenBy(d) = {"reverse:48.8566:-2.3522"}
        /\ Len(calls[c].http) = 1 /\ Len(calls[d].http) = 1

\* The ids in input order with a comma between neighbours.
RECURSIVE CommaSeparated(_)
CommaSeparated(ids) ==
    IF Len(ids) = 1 THEN ids[1]
    ELSE CommaSeparated(SubSeq(ids, 1, Len(ids) - 1)) \o "," \o ids[Len(ids)]

\* C7: lookup of a non-empty id list reads and writes the cache under
\* 'lookup:' followed by the ids joined by commas in input order, and the
\* GET it issues on a miss is to /lookup with osm_ids that same string;
\* lookup(['R1','W2']) uses 'lookup:R1,W2'.
C7_LookupKeyAndIds ==
    \A c \in CallIds :
        (calls[c].op = "lookup" /\ calls[c].args.osmIds # <<>>)
        => LET ids == calls[c].args.osmIds
           IN /\ calls[c].key = "lookup:" \o CommaSeparated(ids)
              /\ (ids = <<"R1", "W2">> => calls[c].key = "lookup:R1,W2")
              /\ WrittenBy(c) \subseteq {"lookup:" \o CommaSeparated(ids)}
              /\ calls[c].http \in
                    {<<>>, <<[path |-> "/lookup",
                              params |-> [osm_ids |-> CommaSeparated(ids)]]>>}
              /\ (calls[c].pc \in {"http", "set"} => calls[c].http # <<>>)

\* C7 witness: lookup(['R1','W2']) missed and cached under 'lookup:R1,W2'.
C7_Witness ==
    \E c \in CallIds :
        /\ calls[c].op = "lookup" /\ calls[c].args.osmIds = <<"R1", "W2">>
        /\ calls[c].http = <<[path |-> "/lookup", params |-> [osm_ids |-> "R1,W2"]]>>
        /\ WrittenBy(c) = {"lookup:R1,W2"}

\* An address component that is there: neither missing nor null.
Present(address, f) == f \in DOMAIN address /\ address[f] # Null

\* The value of the first component of fs that is there, else null.
RECURSIVE FirstPresent(_, _)
FirstPresent(address, fs) ==
    IF fs = <<>> THEN Null
    ELSE IF Present(address, Head(fs)) THEN address[Head(fs)]
    ELSE FirstPresent(address, Tail(fs))

\* C8: formatLocation's region is address.state when state is there, else
\* address.region when that is there, else null.
C8_RegionFallback ==
    formatted # NoResult
    => LET address == AddressOf(data)
       IN formatted.region =
              IF Present(address, "state") THEN address["state"]
              ELSE IF Present(address, "region") THEN address["region"]
              ELSE Null

\* C8 witness: state absent and region 'Bretagne' gave region 'Bretagne'.
C8_Witness ==
    /\ formatted # NoResult
    /\ "address" \in DOMAIN data
    /\ "state" \notin DOMAIN data.address
    /\ Prop(data.address, "region") = "Bretagne"
    /\ formatted.region = "Bretagne"

\* C9: formatLocation's commune is the first of municipality, city, town,
\* village, county that is there, else null.
C9_CommuneFallback ==
    formatted # NoResult
    => formatted.commune =
           FirstPresent(AddressOf(data),
                        <<"municipality", "city", "town", "village", "county">>)

\* C9 witness: city and municipality both set, commune is the municipality.
C9_Witness ==
    /\ formatted # NoResult
    /\ "address" \in DOMAIN data
    /\ Prop(data.address, "city") = "Rennes"
    /\ Prop(data.address, "municipality") = "Bretagne"
    /\ formatted.commune = "Bretagne"

\* C10: formatLocation never changes the Place it is given; the step in
\* which it returns touches neither the cache nor any call's cache and HTTP
\* activity; and whatever the service does in between, a later call on that
\* Place returns what the earlier call returned.
C10_FormatLocationIsPure ==
    [][/\ data' = data
       /\ (formatted' # formatted => calls' = calls /\ cache' = cache)
       /\ (formatted # NoResult => formatted' = formatted)]_vars

\* C10 witness: formatLocation has returned while a call is in flight and
\* the cache is filled.
C10_Witness ==
    /\ formatted # NoResult
    /\ formatted = formatLocation(data)
    /\ DOMAIN cache # {}
    /\ \E c \in CallIds : calls[c].pc # "done"

\* A body that is one Place object.
IsPlace(body) == body = PlaceBody

\* C11: a reverse call whose GET was answered with a body that is not a
\* Place does not return that body (it fails), and no cache entry comes
\* from it.
C11_ReverseReturnsPlaceOrFails ==
    \A c \in CallIds :
        ( /\ calls[c].op = "reverse"
          /\ calls[c].fetched # Undefined
          /\ ~IsPlace(calls[c].fetched) )
        => /\ calls[c].result.kind # "ok"
           /\ WrittenBy(c) = {}

\* The requests the calls have sent so far.
Requests == UNION {{calls[c].http[i] : i \in DOMAIN calls[c].http} : c \in CallIds}

\* C12: when forRoot is given no addressdetails option, the service's
\* addressdetails flag is false and no request carries addressdetails.
C12_AddressdetailsDefaultsToFalse ==
    "addressdetails" \notin DOMAIN given
    => /\ options.addressdetails = FALSE
       /\ \A request \in Requests :
              "addressdetails" \notin DOMAIN QueryParams(request)

Flags == {"addressdetails", "extratags", "namedetails"}

\* C16: every request sent carries format=json and accept-language set to
\* the configured language; for each of the three flags it carries flag=1
\* when the configured flag is true and no such parameter otherwise; and
\* it carries the operation's own parameters.
C16_DefaultQueryParameters ==
    \A request \in Requests :
        LET query == QueryParams(request)
        IN /\ "format" \in DOMAIN query /\ query["format"] = "json"
           /\ "accept-language" \in DOMAIN query
           /\ query["accept-language"] = options.language
           /\ \A flag \in Flags :
                  IF options[flag] = TRUE
                  THEN flag \in DOMAIN query /\ query[flag] = 1
                  ELSE flag \notin DOMAIN query
           /\ "params" \in DOMAIN request
              => \A name \in DOMAIN request.params :
                     /\ name \in DOMAIN query
                     /\ query[name] = request.params[name]

\* C16 witness: with language fr, extratags on and addressdetails off, a
\* search has sent its request.
C16_Witness ==
    /\ options.language = "fr"
    /\ options.extratags = TRUE /\ options.addressdetails = FALSE
    /\ \E c \in CallIds :
           /\ calls[c].op = "search"
           /\ Len(calls[c].http) = 1
           /\ QueryParams(calls[c].http[1]) =
                  [q |-> calls[c].args.query] @@ ("format" :> "json")
                  @@ ("accept-language" :> "fr") @@ ("extratags" :> 1)

\* C13: no call sends more than one GET, whether its GET succeeded, failed
\* or is still under way; a call whose GET failed has sent exactly one.
C13_NoRetry ==
    \A c \in CallIds :
        /\ Len(calls[c].http) <= 1
        /\ calls[c].cause # "none"
           => Len(calls[c].http) = 1 /\ calls[c].pc = "done"

\* C13 witness: a search whose GET timed out has failed after one request.
C13_Witness ==
    \E c \in CallIds :
        /\ calls[c].op = "search"
        /\ calls[c].cause = "timeout"
        /\ calls[c].result = Err(RequestFailed)
        /\ Len(calls[c].http) = 1

\* The call's cache get was answered, and the key was not in the store.
MissedAbsent(c) == calls[c].got /\ calls[c].readFrom = 0

\* C14: a call whose cache get found the key absent has sent a request of
\* its own, whatever other calls for the key are doing; two such calls for
\* one key have sent two requests.
C14_NoSingleFlight ==
    /\ \A c \in CallIds : MissedAbsent(c) => Len(calls[c].http) = 1
    /\ \A c, d \in CallIds :
           ( /\ c # d /\ calls[c].key = calls[d].key
             /\ MissedAbsent(c) /\ MissedAbsent(d) )
           => Len(calls[c].http) + Len(calls[d].http) = 2

\* C14 witness: two searches of one query are both waiting for their own
\* GET, neither having written the cache.
C14_Witness ==
    \E c, d \in CallIds :
        /\ c # d
        /\ calls[c].op = "search" /\ calls[d].op = "search"
        /\ calls[c].key = calls[d].key
        /\ MissedAbsent(c) /\ MissedAbsent(d)
        /\ calls[c].pc = "http" /\ calls[d].pc = "http"
        /\ calls[c].http = calls[d].http /\ Len(calls[c].http) = 1

\* C15: a call whose cache get failed has ended with the store's error and
\* sent no request; a call whose cache set failed has ended with the
\* store's error although its GET had brought a result; the error is not
\* the generic request error.
C15_StoreFailurePropagates ==
    \A c \in CallIds :
        /\ calls[c].storeFault = "get"
           => /\ calls[c].pc = "done"
              /\ calls[c].result = Err(StoreError)
              /\ calls[c].http = <<>> /\ calls[c].sets = 0
        /\ calls[c].storeFault = "set"
           => /\ calls[c].pc = "done"
              /\ calls[c].result = Err(StoreError)
              /\ calls[c].fetched \in Bodies /\ Len(calls[c].http) = 1
        /\ calls[c].storeFault # "none" => calls[c].result # Err(RequestFailed)

\* C15 witness: one call's cache get failed, another's cache set failed
\* after its GET had fetched a Place list.
C15_Witness ==
    \E c, d \in CallIds :
        /\ calls[c].storeFault = "get" /\ calls[c].result = Err(StoreError)
        /\ calls[d].storeFault = "set" /\ calls[d].result = Err(StoreError)
        /\ calls[d].fetched = "[P1]"

\* C17: a call whose cache get found an entry under its key returns that
\* entry's value, sends no request and writes nothing to the cache.
C17_StoredValueIsReturned ==
    \A c \in CallIds :
        (calls[c].got /\ calls[c].readFrom # 0)
        => /\ calls[c].pc = "done"
           /\ calls[c].result = Ok(calls[c].cached)
           /\ calls[c].http = <<>>
           /\ calls[c].sets = 0

\* The operations that go through cachedRequest.
CachedOps == {"search", "reverse", "lookup"}

\* C18: the step in which a call's cache get comes back with a miss sends
\* the call's one request; the step in which its GET is answered keeps that
\* single request and starts the one cache set; the step in which the set
\* completes leaves exactly the fetched body under the call's key, with
\* the call's TTL (none given: the store's default), changes no other
\* entry, and returns that same body.
C18_MissFetchesStoresReturns ==
    [][\A c \in CallIds :
           LET before == calls[c]
               after == calls'[c]
           IN /\ (before.pc = "get" /\ after.got /\ ~Truthy(after.cached))
                 => after.pc = "http" /\ after.http = <<before.requestFn>>
              /\ (before.pc = "http" /\ after.pc = "set")
                 => /\ after.http = before.http /\ Len(after.http) = 1
                    /\ after.sets = 1 /\ after.fetched \in Bodies
              /\ (before.pc = "set" /\ after.result.kind = "ok")
                 => /\ after.result = Ok(before.fetched)
                    /\ after.http = before.http /\ after.sets = 1
                    /\ DOMAIN cache' = DOMAIN cache \cup {before.key}
                    /\ cache'[before.key].value = before.fetched
                    /\ cache'[before.key].ttl = before.ttl
                    /\ before.ttl = Undefined
                    /\ \A k \in DOMAIN cache \ {before.key} : cache'[k] = cache[k]
      ]_vars

\* C18 witness: a lookup that missed has fetched a Place list once, the
\* list is in the cache under its key and is what the call returned.
C18_Witness ==
    \E c \in CallIds :
        /\ calls[c].op = "lookup"
        /\ calls[c].got /\ ~Truthy(calls[c].cached)
        /\ Len(calls[c].http) = 1 /\ calls[c].sets = 1
        /\ calls[c].result = Ok("[P1]")
        /\ calls[c].key \in DOMAIN cache
        /\ cache[calls[c].key] = [value |-> "[P1]", ttl |-> Undefined, writer |-> c]

\* The calls whose cache set under key has completed.
Setters(key) == {c \in CallIds : calls[c].key = key /\ calls[c].setAt > 0}

\* Of those, the one whose set completed last.
LastSetter(key) ==
    CHOOSE c \in Setters(key) : \A d \in Setters(key) : calls[d].setAt <= calls[c].setAt

\* C19: every call that missed and completed its cache set has written
\* (two such calls on one key make two writes); the entry under a key is
\* the body fetched by the call whose set completed last; and each call
\* returns the body it fetched itself.
C19_LastWriteWins ==
    /\ \A c \in CallIds :
           (calls[c].sets = 1 /\ calls[c].result.kind = "ok")
           => /\ calls[c].setAt > 0
              /\ calls[c].result = Ok(calls[c].fetched)
    /\ \A c, d \in CallIds :
           (c # d /\ calls[c].setAt > 0 /\ calls[d].setAt > 0)
           => calls[c].setAt # calls[d].setAt
    /\ \A key \in DOMAIN cache :
           /\ Setters(key) # {}
           /\ cache[key].value = calls[LastSetter(key)].fetched

\* C19 witness: two searches of one query both missed; the one started
\* last set first, the one started first set last; the entry is the first
\* one's body, and each returned its own, different body.
C19_Witness ==
    \E c, d \in CallIds :
        /\ c < d
        /\ calls[c].key = calls[d].key
        /\ MissedAbsent(c) /\ MissedAbsent(d)
        /\ calls[d].setAt = 1 /\ calls[c].setAt = 2
        /\ calls[c].fetched = "[]" /\ calls[d].fetched = "[P1]"
        /\ calls[c].result = Ok("[]") /\ calls[d].result = Ok("[P1]")
        /\ calls[c].key \in DOMAIN cache
        /\ cache[calls[c].key].value = "[]"

\* C20: in every step, for every call of search, reverse and lookup: a call
\* that has ended does not change again; a request is sent only by the
\* step that answers the call's cache get, and only on a miss; a cache set
\* is started only by the step that answers the call's request, with a
\* body; no call has more than one get, request or set; a call starts with
\* at most its cache get made; and a cache entry is written only by the
\* step that completes the set of a call for that key.
C20_FixedStepOrder ==
    [][/\ \A c \in CallIds :
              LET before == calls[c]
                  after == calls'[c]
              IN before.op \in CachedOps
                 => /\ before.pc = "done" => after = before
                    /\ after.gets = before.gets
                    /\ after.gets <= 1 /\ Len(after.http) <= 1 /\ after.sets <= 1
                    /\ after.http # before.http
                       => /\ before.pc = "get" /\ before.gets = 1
                          /\ before.http = <<>>
                          /\ after.got /\ ~Truthy(after.cached)
                    /\ after.sets # before.sets
                       => /\ before.pc = "http" /\ Len(before.http) = 1
                          /\ before.sets = 0
                          /\ after.http = before.http
                          /\ after.fetched \in Bodies /\ after.cause = "none"
       /\ \A c \in DOMAIN calls' \ CallIds :
              calls'[c].op \in CachedOps
              => /\ calls'[c].http = <<>> /\ calls'[c].sets = 0
                 /\ calls'[c].gets = (IF calls'[c].pc = "get" THEN 1 ELSE 0)
       /\ \A k \in DOMAIN cache' :
              (k \notin DOMAIN cache \/ cache'[k] # cache[k])
              => \E c \in CallIds :
                     /\ calls[c].key = k /\ calls[c].op \in CachedOps
                     /\ calls[c].pc = "set" /\ calls'[c].pc = "done"
      ]_vars

\* C20 witness: one reverse call has gone through get, GET and set and
\* returned; a later one for the same key was served from the cache with
\* its get alone.
C20_Witness ==
    \E c, d \in CallIds :
        /\ c # d
        /\ calls[c].op = "reverse" /\ calls[d].op = "reverse"
        /\ calls[c].key = calls[d].key
        /\ calls[c].pc = "done" /\ calls[d].pc = "done"
        /\ calls[c].gets = 1 /\ Len(calls[c].http) = 1 /\ calls[c].sets = 1
        /\ calls[c].setAt = 1
        /\ calls[d].gets = 1 /\ calls[d].http = <<>> /\ calls[d].sets = 0
        /\ calls[d].readFrom = c
        /\ calls[d].result = calls[c].result

\* The address components each FormattedAddress field is taken from, in
\* the order they are tried.
Candidates ==
    [country |-> <<"country">>,
     countryCode |-> <<"country_code">>,
     postcode |-> <<"postcode">>,
     region |-> <<"state", "region">>,
     regionCode |-> <<"ISO3166-2-lvl2", "ISO3166-2-lvl4", "ISO3166-2-lvl6",
                      "ISO3166-2-lvl8">>,
     commune |-> <<"municipality", "city", "town", "village", "county">>,
     district |-> <<"city_district", "district", "suburb", "neighbourhood",
                    "hamlet">>,
     street |-> <<"road", "street", "highway", "residential">>,
     placeType |-> <<"amenity", "building", "public_building", "office", "shop",
                     "tourism", "leisure">>]

C26_NoAddressBlock ==
    (formatted # NoResult /\ "address" \notin DOMAIN data)
    => /\ \A field \in DOMAIN Candidates : formatted[field] = Null
       /\ formatted.fullAddress =
              IF "display_name" \in DOMAIN data THEN data.display_name ELSE ""

\* C26 witness: a Place with neither address nor display_name was
\* formatted, fullAddress is the empty string.
C26_Witness ==
    /\ formatted # NoResult
    /\ "address" \notin DOMAIN data
    /\ "display_name" \notin DOMAIN data
    /\ formatted.fullAddress = ""
    /\ formatted.country = Null /\ formatted.placeType = Null

\* C27: in every fallback chain, an empty-string component that no
\* present component precedes is the field's value: the fallback stops at
\* it.  With state '' and region 'Bretagne' the region is ''.
C27_EmptyStringStopsFallback ==
    formatted # NoResult
    => LET address == AddressOf(data)
       IN \A field \in DOMAIN Candidates :
              \A i \in DOMAIN Candidates[field] :
                  ( /\ Prop(address, Candidates[field][i]) = ""
                    /\ \A j \in 1..(i - 1) :
                           Prop(address, Candidates[field][j]) \in {Null, Undefined} )
                  => formatted[field] = ""

\* C27 witness: state '' and region 'Bretagne' gave region ''.
C27_Witness ==
    /\ formatted # NoResult
    /\ "address" \in DOMAIN data
    /\ Prop(data.address, "state") = ""
    /\ Prop(data.address, "region") = "Bretagne"
    /\ formatted.region = ""

\* C21: in every step, a cache get that finds the key absent (never
\* written, or dropped by the store since) makes the call send a new
\* request; a completed cache set leaves the call's fetched body under its
\* key, creating the entry or overwriting it; and a step that removes an
\* entry is the store's own, no call takes part in it.
C21_EntryLifecycle ==
    [][/\ \A c \in CallIds :
              LET before == calls[c]
                  after == calls'[c]
              IN /\ ( /\ before.pc = "get" /\ after.got
                      /\ before.key \notin DOMAIN cache )
                    => after.pc = "http" /\ after.http = <<before.requestFn>>
                 /\ (before.pc = "set" /\ after.result.kind = "ok")
                    => /\ before.key \in DOMAIN cache'
                       /\ cache'[before.key].value = before.fetched
       /\ DOMAIN cache \ DOMAIN cache' # {} => calls' = calls
      ]_vars

\* C21 witness: a call created the entry, the store dropped it, and a call
\* started afterwards found the key absent, fetched another body and wrote
\* the entry anew.
C21_Witness ==
    \E c, d \in CallIds :
        /\ calls[c].key = calls[d].key
        /\ c \in calls[d].ended
        /\ calls[c].setAt = 1 /\ calls[d].setAt = 2
        /\ MissedAbsent(d)
        /\ Len(calls[d].http) = 1
        /\ calls[c].fetched = "[]" /\ calls[d].fetched = "[P1]"
        /\ cache[calls[d].key] = [value |-> "[P1]", ttl |-> Undefined, writer |-> d]

\* C23: a call of search, reverse or lookup whose GET failed has ended
\* without starting a cache set and no entry comes from it; every entry
\* was written by a call whose GET succeeded and holds the body fetched;
\* and a call started after the failed one, for the same key, that finds
\* the key absent has sent a request of its own.
C23_FailuresAreNotCached ==
    /\ \A c \in CallIds :
           (calls[c].op \in CachedOps /\ calls[c].cause # "none")
           => /\ calls[c].pc = "done"
              /\ calls[c].sets = 0 /\ calls[c].setAt = 0
              /\ WrittenBy(c) = {}
    /\ \A k \in DOMAIN cache :
           /\ calls[cache[k].writer].cause = "none"
           /\ cache[k].value = calls[cache[k].writer].fetched
           /\ cache[k].value \in Bodies
    /\ \A c, d \in CallIds :
           ( /\ c \in calls[d].ended /\ calls[c].key = calls[d].key
             /\ calls[c].cause # "none" /\ MissedAbsent(d) )
           => Len(calls[d].http) = 1

\* C23 witness: a search failed on a network error with the cache empty;
\* a search of the same query started afterwards has sent its own request
\* and the cache is still empty.
C23_Witness ==
    \E c, d \in CallIds :
        /\ calls[c].op = "search" /\ calls[d].op = "search"
        /\ calls[c].key = calls[d].key
        /\ c \in calls[d].ended
        /\ calls[c].cause = "network" /\ calls[c].result = Err(RequestFailed)
        /\ MissedAbsent(c) /\ MissedAbsent(d)
        /\ calls[d].pc = "http" /\ Len(calls[d].http) = 1
        /\ cache = EmptyCache

\* The cache key that belongs to a request: the operation's name and the
\* request's own parameters.
KeyOfRequest(request) ==
    IF request.path = "/search" THEN "search:" \o request.params.q
    ELSE IF request.path = "/reverse"
         THEN "reverse:" \o NumberToString(request.params.lat) \o ":"
              \o NumberToString(request.params.lon)
    ELSE "lookup:" \o request.params.osm_ids

\* C24: every cache entry holds the body that answered the one request of
\* the call that wrote it, that request succeeded, and the entry's key is
\* the key of that request's endpoint and parameters.
C24_EntriesMatchTheirKey ==
    \A k \in DOMAIN cache :
        LET writer == calls[cache[k].writer]
        IN /\ writer.op \in CachedOps
           /\ Len(writer.http) = 1
           /\ writer.http[1].path \in {"/search", "/reverse", "/lookup"}
           /\ writer.cause = "none"
           /\ cache[k].value = writer.fetched
           /\ k = KeyOfRequest(writer.http[1])

\* C24 witness: the cache holds the answers to a lookup of two ids and to
\* a reverse request, each under its own key.
C24_Witness ==
    /\ "lookup:R1,W2" \in DOMAIN cache
    /\ "reverse:48.8566:-2.3522" \in DOMAIN cache
    /\ cache["lookup:R1,W2"].value = "[P1]"
    /\ cache["reverse:48.8566:-2.3522"].value = PlaceBody
    /\ calls[cache["lookup:R1,W2"].writer].http =
           <<[path |-> "/lookup", params |-> [osm_ids |-> "R1,W2"]]>>

\* C25: a call of search, reverse or lookup that returned a value returned
\* either what its cache get read, which was an entry under its own key
\* written by a call for that key, or the body that answered its own
\* request; and it wrote under no key but its own.
C25_NoCrossTalk ==
    \A c \in CallIds :
        calls[c].op \in CachedOps
        => /\ calls[c].result.kind = "ok"
              => \/ /\ calls[c].got /\ Truthy(calls[c].cached)
                    /\ calls[c].readFrom # 0
                    /\ calls[calls[c].readFrom].key = calls[c].key
                    /\ calls[c].cached = calls[calls[c].readFrom].fetched
                    /\ calls[c].result = Ok(calls[c].cached)
                    /\ calls[c].http = <<>>
                 \/ /\ calls[c].got /\ ~Truthy(calls[c].cached)
                    /\ calls[c].http = <<calls[c].requestFn>>
                    /\ calls[c].result = Ok(calls[c].fetched)
           /\ WrittenBy(c) \subseteq {calls[c].key}
           /\ calls[c].readFrom # 0
              => calls[calls[c].readFrom].key = calls[c].key

\* C25 witness: a search and a lookup ran at the same time (neither had
\* ended when the other started), each returned its own body and the cache
\* holds each body under its own key.
C25_Witness ==
    \E c, d \in CallIds :
        /\ calls[c].op = "search" /\ calls[d].op = "lookup"
        /\ c \notin calls[d].ended /\ d \notin calls[c].ended
        /\ calls[c].result = Ok("[]") /\ calls[d].result = Ok("[P1]")
        /\ calls[c].key \in DOMAIN cache /\ calls[d].key \in DOMAIN cache
        /\ cache[calls[c].key].value = "[]"
        /\ cache[calls[d].key].value = "[P1]"

\* The application gave option name the value v (compared across types).
GivenIs(name, v) == ToString(Given(given, name)) = ToString(v)

\* C28: under every configuration, the cache key of a search, reverse or
\* lookup call is built from the operation's name and the call's arguments
\* and from nothing else, so it is the same under all configurations.
C28_KeyIgnoresConfiguration ==
    \A c \in CallIds :
        LET call == calls[c]
        IN /\ call.op = "search" => call.key = "search:" \o call.args.query
           /\ call.op = "reverse"
              => call.key = "reverse:" \o NumberToString(call.args.coordinates.lat)
                            \o ":" \o NumberToString(call.args.coordinates.lon)
           /\ (call.op = "lookup" /\ call.args.osmIds # <<>>)
              => call.key = "lookup:" \o Join(call.args.osmIds, ",")

\* C28 witness: a service set up with language fr, another base URL and
\* extratags on has sent a search with those settings, and the call's key
\* is the plain 'search:a:b'.
C28_Witness ==
    /\ options.language = "fr"
    /\ options.baseUrl = "http://localhost:8080"
    /\ options.extratags = TRUE
    /\ \E c \in CallIds :
           /\ calls[c].op = "search" /\ calls[c].args.query = "a:b"
           /\ calls[c].key = "search:a:b"
           /\ Len(calls[c].http) = 1
           /\ "extratags" \in DOMAIN QueryParams(calls[c].http[1])
           /\ QueryParams(calls[c].http[1])["accept-language"] = "fr"

\* C29: the cache module is registered with the defaults (ttl 86400000,
\* namespace 'nominatim', refreshThreshold 60000, nonBlocking false, no
\* stores) when no cache option was given, and otherwise with exactly the
\* given cache options: given without a ttl, they are registered without.
C29_CacheOptionsReplaceDefaults ==
    IF Nullish(Given(given, "cache"))
    THEN cacheOptions = [ttl |-> 86400000, namespace |-> "nominatim",
                         refreshThreshold |-> 60000, nonBlocking |-> FALSE,
                         stores |-> <<>>]
    ELSE /\ cacheOptions = given.cache
         /\ "ttl" \notin DOMAIN given.cache => "ttl" \notin DOMAIN cacheOptions

\* C29 witness: cache options holding a namespace only were given and are
\* what the cache module was registered with.
C29_Witness ==
    /\ ~Nullish(Given(given, "cache"))
    /\ given.cache = [namespace |-> "app"]
    /\ cacheOptions = [namespace |-> "app"]
    /\ calls # <<>>

OptionNames ==
    {"baseUrl", "language", "addressdetails", "timeout", "userAgent",
     "extratags", "namedetails"}

\* C30: each of the seven options reaches the service with the value the
\* application gave whenever that is neither null nor undefined, and with
\* the NominatimConfig default otherwise; and when addressdetails was given
\* as false no request carries addressdetails.
C30_GivenOptionsArePassedOn ==
    /\ \A name \in OptionNames :
           IF name \in DOMAIN given /\ ~Nullish(given[name])
           THEN options[name] = given[name]
           ELSE options[name] = NominatimConfig[name]
    /\ GivenIs("addressdetails", FALSE)
       => \A request \in Requests :
              "addressdetails" \notin DOMAIN QueryParams(request)

\* C30 witness: timeout 0, userAgent '' and addressdetails false were
\* given and kept, extratags was given as null and took its default, and
\* a search went out without addressdetails.
C30_Witness ==
    /\ GivenIs("timeout", 0) /\ options.timeout = 0
    /\ GivenIs("userAgent", "") /\ options.userAgent = ""
    /\ GivenIs("addressdetails", FALSE) /\ options.addressdetails = FALSE
    /\ GivenIs("extratags", Null) /\ options.extratags = FALSE
    /\ \E c \in CallIds :
           /\ calls[c].op = "search"
           /\ Len(calls[c].http) = 1
           /\ "addressdetails" \notin DOMAIN QueryParams(calls[c].http[1])

====
